---- MODULE Spec2Model ----
(***************************************************************************)
(* The chat widget of tirthpatel143/yoga: the turn lifecycle of            *)
(* sendMessage, the identity resolution it performs in the extended        *)
(* variant (src/chatbot/schema.sql, whose lines 13-246 are the widget's    *)
(* script) and submitFeedback.  The basic variant (src/frontend/script.js) *)
(* is the same sendMessage without identity resolution and feedback.       *)
(*                                                                         *)
(* A text is a sequence of pieces.  What the user types is a sequence of   *)
(* one-character pieces; a literal of the script is a single piece; a      *)
(* template literal is the concatenation of its pieces.  JavaScript null   *)
(* and the empty string are both the empty sequence: the script only ever  *)
(* tests them with `!x`.                                                   *)
(*                                                                         *)
(* Two consecutive awaits with no statement that touches shared state      *)
(* between them (fetch, then response.json()) are one step whose outcome   *)
(* ranges over both.  The scroll position of the history and the id        *)
(* attribute of the placeholder are written and never read; they are not   *)
(* part of the state.                                                      *)
(***************************************************************************)
EXTENDS Integers, Sequences, FiniteSets, TLC

\* ------------------------------------------------------------------ bounds
MaxTurns == 2
MaxClicks == 2
MaxProducts == 2

\* ------------------------------------------------------- character classes
Lower == {"a","b","c","d","e","f","g","h","i","j","k","l","m",
          "n","o","p","q","r","s","t","u","v","w","x","y","z"}
Upper == {"A","B","C","D","E","F","G","H","I","J","K","L","M",
          "N","O","P","Q","R","S","T","U","V","W","X","Y","Z"}
Digit == {"0","1","2","3","4","5","6","7","8","9"}
\* [a-zA-Z0-9]
Alnum == Lower \cup Upper \cup Digit
\* [a-zA-Z0-9_.+-]
EmailLocal == Alnum \cup {"_", ".", "+", "-"}
\* [a-zA-Z0-9-]
EmailDomain == Alnum \cup {"-"}
\* [a-zA-Z0-9-.]
EmailTld == Alnum \cup {"-", "."}
\* what String.prototype.trim strips
WhiteSpace == {" ", "\t", "\n", "\r"}

Null == << >>

MinOf(S) == CHOOSE x \in S : \A y \in S : x <= y
MaxOf(S) == CHOOSE x \in S : \A y \in S : y <= x

\* ------------------------------------------------------------ text helpers
\* userInput.value, the trim forgotten
TrimNot(s) == s

\* userInput.value.trim()
Trim(s) ==
    LET idx == {i \in 1..Len(s) : s[i] \notin WhiteSpace}
    IN  IF idx = {} THEN << >> ELSE SubSeq(s, MinOf(idx), MaxOf(idx))

AllIn(t, lo, hi, C) == \A i \in lo..hi : t[i] \in C

\* the last index of the longest run of characters of C that starts at i
\* (i - 1 when t[i] is not in C): a greedy `[C]+`
RunEnd(t, i, C) ==
    LET ends == {j \in i..Len(t) : AllIn(t, i, j, C)}
    IN  IF ends = {} THEN i - 1 ELSE MaxOf(ends)

CusPrefix == <<"c", "u", "s", "_">>

\* text.match(/^cus_[a-zA-Z0-9]+$/)
WholeCus(t) ==
    /\ Len(t) >= 5
    /\ SubSeq(t, 1, 4) = CusPrefix
    /\ AllIn(t, 5, Len(t), Alnum)

\* text.match(/^[a-zA-Z0-9_.+-]+@[a-zA-Z0-9-]+\.[a-zA-Z0-9-.]+$/)
WholeEmail(t) ==
    \E a \in 2..Len(t) : \E d \in (a + 2)..(Len(t) - 1) :
        /\ t[a] = "@"
        /\ t[d] = "."
        /\ AllIn(t, 1, a - 1, EmailLocal)
        /\ AllIn(t, a + 1, d - 1, EmailDomain)
        /\ AllIn(t, d + 1, Len(t), EmailTld)

CusAt(t, i) ==
    /\ i + 4 <= Len(t)
    /\ SubSeq(t, i, i + 3) = CusPrefix
    /\ t[i + 4] \in Alnum

\* text.match(/cus_[a-zA-Z0-9]+/)[0], Null when there is no match:
\* the leftmost match, extended greedily
FindCus(t) ==
    LET starts == {i \in 1..Len(t) : CusAt(t, i)}
    IN  IF starts = {} THEN Null
        ELSE LET i == MinOf(starts)
             IN  SubSeq(t, i, RunEnd(t, i + 4, Alnum))

\* the end of the match of the email pattern that starts at i, 0 when none.
\* No class of the pattern contains the character that must follow it, so
\* each greedy run is the only candidate and backtracking finds nothing more.
EmailEndAt(t, i) ==
    LET k == RunEnd(t, i, EmailLocal)
        m == RunEnd(t, k + 2, EmailDomain)
        e == RunEnd(t, m + 2, EmailTld)
    IN  IF /\ k >= i
           /\ k + 1 <= Len(t) /\ t[k + 1] = "@"
           /\ m >= k + 2
           /\ m + 1 <= Len(t) /\ t[m + 1] = "."
           /\ e >= m + 2
        THEN e ELSE 0

\* text.match(/[a-zA-Z0-9_.+-]+@[a-zA-Z0-9-]+\.[a-zA-Z0-9-.]+/)[0]
FindEmail(t) ==
    LET starts == {i \in 1..Len(t) : EmailEndAt(t, i) > 0}
    IN  IF starts = {} THEN Null
        ELSE LET i == MinOf(starts)
             IN  SubSeq(t, i, EmailEndAt(t, i))

\* ------------------------------------------------------- identity resolver
\* the whole-input patterns tried only while no identity is set
ResolveIdentityOnce(text, cur) ==
    LET matched ==
            IF cur = Null /\ WholeCus(text) THEN [id |-> text, isLogin |-> TRUE]
            ELSE IF cur = Null /\ WholeEmail(text) THEN [id |-> text, isLogin |-> TRUE]
            ELSE IF FindCus(text) # Null
                 THEN [id |-> FindCus(text), isLogin |-> FALSE]
            ELSE IF FindEmail(text) # Null
                 THEN [id |-> FindEmail(text), isLogin |-> FALSE]
            ELSE [id |-> cur, isLogin |-> FALSE]
    IN  IF matched.id = Null /\ text # << >>
        THEN [id |-> text, isLogin |-> TRUE]
        ELSE matched

\* the identity assigned from the match even when nothing matched
ResolveIdentityForget(text, cur) ==
    LET matched ==
            IF WholeCus(text) THEN [id |-> text, isLogin |-> TRUE]
            ELSE IF WholeEmail(text) THEN [id |-> text, isLogin |-> TRUE]
            ELSE IF FindCus(text) # Null
                 THEN [id |-> FindCus(text), isLogin |-> FALSE]
            ELSE IF FindEmail(text) # Null
                 THEN [id |-> FindEmail(text), isLogin |-> FALSE]
            ELSE [id |-> Null, isLogin |-> FALSE]
    IN  IF cur = Null /\ matched.id = Null /\ text # << >>
        THEN [id |-> text, isLogin |-> TRUE]
        ELSE matched

\* the matching chain without the fallback of lines 99-102
ResolveIdentityNoFallback(text, cur) ==
    IF WholeCus(text) THEN [id |-> text, isLogin |-> TRUE]
    ELSE IF WholeEmail(text) THEN [id |-> text, isLogin |-> TRUE]
    ELSE IF FindCus(text) # Null
         THEN [id |-> FindCus(text), isLogin |-> FALSE]
    ELSE IF FindEmail(text) # Null
         THEN [id |-> FindEmail(text), isLogin |-> FALSE]
    ELSE [id |-> cur, isLogin |-> FALSE]

\* the email substring tried before the customer-identifier substring
ResolveIdentityEmailFirst(text, cur) ==
    LET matched ==
            IF WholeCus(text) THEN [id |-> text, isLogin |-> TRUE]
            ELSE IF WholeEmail(text) THEN [id |-> text, isLogin |-> TRUE]
            ELSE IF FindEmail(text) # Null
                 THEN [id |-> FindEmail(text), isLogin |-> FALSE]
            ELSE IF FindCus(text) # Null
                 THEN [id |-> FindCus(text), isLogin |-> FALSE]
            ELSE [id |-> cur, isLogin |-> FALSE]
    IN  IF matched.id = Null /\ text # << >>
        THEN [id |-> text, isLogin |-> TRUE]
        ELSE matched

\* lines 86-102 of the extended sendMessage: the identity and the isLogin
\* flag after the matching chain and the fallback, from the trimmed text
\* and the identity held before the turn
ResolveIdentity(text, cur) ==
    LET matched ==
            IF WholeCus(text) THEN [id |-> text, isLogin |-> TRUE]
            ELSE IF WholeEmail(text) THEN [id |-> text, isLogin |-> TRUE]
            ELSE IF FindCus(text) # Null
                 THEN [id |-> FindCus(text), isLogin |-> FALSE]
            ELSE IF FindEmail(text) # Null
                 THEN [id |-> FindEmail(text), isLogin |-> FALSE]
            ELSE [id |-> cur, isLogin |-> FALSE]
    IN  IF matched.id = Null /\ text # << >>
        THEN [id |-> text, isLogin |-> TRUE]
        ELSE matched

\* ---------------------------------------------------------------- the DOM
\* A message element is a record: its role class, its child nodes in
\* document order, and (not in the DOM) the turn that appended it, which
\* stands for the aiMsg reference the turn's closure holds.
Bubble(fmt, content) == [tag |-> "bubble", fmt |-> fmt, content |-> content]

\* createMessage(content, role): a div.message with one div.bubble whose
\* innerText is the content
createMessage(content, role) ==
    [role |-> role, turn |-> 0, children |-> <<Bubble("text", content)>>]

\* createProductCard(product)
createProductCard(product) ==
    [tag |-> "product-card", image |-> product.image, alt |-> product.title,
     title |-> product.title, price |-> product.price, href |-> product.url]

\* document.createElement('div') with className 'products-container'
ProductsContainer == [tag |-> "products", cards |-> << >>]

\* the div.feedback-container with its label and two buttons, no class set
FeedbackContainer(mid) ==
    [tag |-> "feedback", mid |-> mid, up |-> FALSE, down |-> FALSE,
     has |-> FALSE]

\* msg.querySelector('.bubble'): the position of the bubble among the children
BubbleIndex(msg) ==
    MinOf({i \in 1..Len(msg.children) : msg.children[i].tag = "bubble"})

ChildIndex(msg, tag) ==
    MinOf({i \in 1..Len(msg.children) : msg.children[i].tag = tag})

HasChild(msg, tag) == \E i \in 1..Len(msg.children) : msg.children[i].tag = tag

\* parent.insertBefore(node, the child at position ref)
insertBefore(children, node, ref) ==
    SubSeq(children, 1, ref - 1) \o <<node>> \o SubSeq(children, ref, Len(children))

\* bubble.innerText = content / bubble.innerHTML = content
SetBubble(msg, fmt, content) ==
    [msg EXCEPT !.children[BubbleIndex(msg)] = Bubble(fmt, content)]

\* marked.parse(markdown): the HTML of a one-paragraph markdown source
markedParse(md) == <<"<p>">> \o md \o <<"</p>\n">>

ThinkingText == <<"Thinking...">>

\* the fixed text of the catch block; the two variants name different ports
ErrorText(v) ==
    IF v = "extended"
    THEN <<"I'm having trouble connecting to the server. Please make sure the backend is running at localhost:8005.">>
    ELSE <<"I'm having trouble connecting to the server. Please make sure the backend is running at localhost:8000.">>

\* the template literal of the login confirmation
LoginText(displayUser) ==
    <<"Thank you! You are now logged in as ">> \o displayUser
        \o <<". How can I help you with your order or any of our products today?">>

ChatUrl(v) ==
    IF v = "extended" THEN "http://localhost:8005/chat"
    ELSE "http://localhost:8000/chat"

\* ------------------------------------------------------------------ inputs
\* what the user may type into the input field
Samples ==
    { << >>,
      <<" ", "\t">>,
      <<" ", "c", "u", "s", "_", "A", "1", " ">>,
      <<"a", ".", "b", "@", "x", ".", "c", "o">>,
      <<"h", "i", " ", "c", "u", "s", "_", "B", "2", " ", "c", "@", "y", ".", "c", "o">>,
      <<"a", "t", " ", "a", ".", "b", "@", "x", ".", "c", "o", " ", "o", "k", "?">>,
      <<"h", "e", "l", "l", "o">> }

\* const mockProducts
mockProducts ==
    << [title |-> "Zafu Maharaja - Almofada pufe", price |-> "R$ 230,00",
        image |-> "zafu-maharaja-ameixa.jpg",
        url |-> "https://yogateria.com.br/produto/zafu-maharaja-almofada-pufe/"],
       [title |-> "Tapete de Yoga Premium", price |-> "R$ 450,00",
        image |-> "yogateria-almofada-zafu-maharaja-bege_1.png",
        url |-> "https://yogateria.com.br/"],
       [title |-> "Bloco de Yoga em Cortica", price |-> "R$ 89,00",
        image |-> "yogateria-almofada-zafu-maharaja-preto_1.png",
        url |-> "https://yogateria.com.br/"] >>

\* the product lists a response may carry (an absent list and an empty one
\* take the same branch of `data.products && data.products.length > 0`)
ProductLists ==
    {SubSeq(mockProducts, 1, n) : n \in 0..MaxProducts}

Responses == { <<"**Namaste**">> }
MessageIds == { <<"m1">> }
Names == { <<"Ana">> }

\* the parsed body of a successful chat response
ChatData ==
    [response : Responses, products : ProductLists,
     message_id : MessageIds \cup {Null}]

NoData == [response |-> << >>, products |-> << >>, message_id |-> Null]

\* a fetch rejects, or resolves with a non-2xx status, or resolves with a
\* 2xx status and a body that response.json() rejects
Failures == {"reject", "notok", "badjson"}

\* the outcomes of GET /user/<id>: a failure, a body without a name, a name
LookupOutcomes ==
    {[status |-> f, name |-> Null] : f \in Failures}
        \cup {[status |-> "ok", name |-> n] : n \in Names \cup {Null}}

\* ------------------------------------------------------------------- state
VARIABLES
    variant,        \* which script the page loaded: "basic" or "extended"
    input,          \* userInput.value when no handler is running
    currentUserId,  \* let currentUserId (extended variant)
    history,        \* the children of #chat-history, in document order
    turns,          \* one record per sendMessage call that passed the guard
    requests,       \* every fetch issued so far, in order
    fbPending,      \* the submitFeedback calls awaiting their fetch
    lastOp          \* the step taken last and its inputs (history variable)

vars == <<variant, input, currentUserId, history, turns, requests, fbPending, lastOp>>

Op(op, t, out) == [op |-> op, t |-> t, out |-> out, arg |-> Null]

Init ==
    /\ variant \in {"basic", "extended"}
    /\ input = << >>
    /\ currentUserId = Null
    /\ history = << >>
    /\ turns = << >>
    /\ requests = << >>
    /\ fbPending = {}
    /\ lastOp = Op("load", 0, "")

\* the locals of one sendMessage call and where it is suspended: "lookup"
\* (await fetch /user), "chat" (await fetch /chat), "reveal" (await the
\* 200 ms timer), "done" (returned)
Turn(pc, text, isLogin, aiMsg, displayUser) ==
    [pc |-> pc, text |-> text, isLogin |-> isLogin, aiMsg |-> aiMsg,
     displayUser |-> displayUser, data |-> NoData, left |-> << >>]

Owned(msg, t) == [msg EXCEPT !.turn = t]

\* the body of POST /chat
ChatRequest(v, t, text, uid) ==
    IF v = "extended"
    THEN [kind |-> "chat", turn |-> t, url |-> ChatUrl(v), message |-> text,
          user_id |-> uid]
    ELSE [kind |-> "chat", turn |-> t, url |-> ChatUrl(v), message |-> text]

\* sendMessage refusing a submission while an earlier turn is still running
SendMessageWhenIdle(s) ==
    LET text == Trim(s)
        t    == Len(turns) + 1
        user == Owned(createMessage(text, "user"), t)
        ai   == Owned(createMessage(ThinkingText, "ai"), t)
        r    == IF variant = "extended"
                THEN ResolveIdentity(text, currentUserId)
                ELSE [id |-> currentUserId, isLogin |-> FALSE]
    IN  /\ lastOp' = [Op("send", 0, "") EXCEPT !.arg = s]
        /\ UNCHANGED <<variant, fbPending>>
        /\ IF text = << >>
           THEN /\ input' = s
                /\ UNCHANGED <<currentUserId, history, turns, requests>>
           ELSE /\ Len(turns) < MaxTurns
                /\ \A k \in 1..Len(turns) : turns[k].pc = "done"
                /\ input' = << >>
                /\ currentUserId' = r.id
                /\ IF r.isLogin
                   THEN /\ history' = Append(history, user)
                        /\ requests' = Append(requests,
                               [kind |-> "user", turn |-> t, id |-> r.id])
                        /\ turns' = Append(turns, Turn("lookup", text, TRUE, 0, r.id))
                   ELSE /\ history' = history \o <<user, ai>>
                        /\ requests' = Append(requests,
                               ChatRequest(variant, t, text, r.id))
                        /\ turns' = Append(turns,
                               Turn("chat", text, FALSE, Len(history) + 2, Null))

\* the chat request built from the identity held before the turn
SendMessageStaleIdentity(s) ==
    LET text == Trim(s)
        t    == Len(turns) + 1
        user == Owned(createMessage(text, "user"), t)
        ai   == Owned(createMessage(ThinkingText, "ai"), t)
        r    == IF variant = "extended"
                THEN ResolveIdentity(text, currentUserId)
                ELSE [id |-> currentUserId, isLogin |-> FALSE]
    IN  /\ lastOp' = [Op("send", 0, "") EXCEPT !.arg = s]
        /\ UNCHANGED <<variant, fbPending>>
        /\ IF text = << >>
           THEN /\ input' = s
                /\ UNCHANGED <<currentUserId, history, turns, requests>>
           ELSE /\ Len(turns) < MaxTurns
                /\ input' = << >>
                /\ currentUserId' = r.id
                /\ IF r.isLogin
                   THEN /\ history' = Append(history, user)
                        /\ requests' = Append(requests,
                               [kind |-> "user", turn |-> t, id |-> r.id])
                        /\ turns' = Append(turns, Turn("lookup", text, TRUE, 0, r.id))
                   ELSE /\ history' = history \o <<user, ai>>
                        /\ requests' = Append(requests,
                               ChatRequest(variant, t, text, currentUserId))
                        /\ turns' = Append(turns,
                               Turn("chat", text, FALSE, Len(history) + 2, Null))

\* sendMessage, called with s in the input field, up to its first await: the
\* guard, the user bubble, the identity resolution (extended), then either
\* the user lookup of a login turn or the placeholder and the chat request
SendMessage(s) ==
    LET text == Trim(s)
        t    == Len(turns) + 1
        user == Owned(createMessage(text, "user"), t)
        ai   == Owned(createMessage(ThinkingText, "ai"), t)
        r    == IF variant = "extended"
                THEN ResolveIdentity(text, currentUserId)
                ELSE [id |-> currentUserId, isLogin |-> FALSE]
    IN  /\ lastOp' = [Op("send", 0, "") EXCEPT !.arg = s]
        /\ UNCHANGED <<variant, fbPending>>
        /\ IF text = << >>
           THEN /\ input' = s
                /\ UNCHANGED <<currentUserId, history, turns, requests>>
           ELSE /\ Len(turns) < MaxTurns
                /\ input' = << >>
                /\ currentUserId' = r.id
                /\ IF r.isLogin
                   THEN /\ history' = Append(history, user)
                        /\ requests' = Append(requests,
                               [kind |-> "user", turn |-> t, id |-> r.id])
                        /\ turns' = Append(turns, Turn("lookup", text, TRUE, 0, r.id))
                   ELSE /\ history' = history \o <<user, ai>>
                        /\ requests' = Append(requests,
                               ChatRequest(variant, t, text, r.id))
                        /\ turns' = Append(turns,
                               Turn("chat", text, FALSE, Len(history) + 2, Null))

\* displayUser read from currentUserId after the await instead of before it
LookupDoneLateRead(t, out) ==
    /\ t \in 1..Len(turns)
    /\ turns[t].pc = "lookup"
    /\ LET shown == IF out.status = "ok" /\ out.name # Null
                    THEN out.name ELSE currentUserId
       IN  /\ history' = Append(history,
                   Owned(createMessage(LoginText(shown), "ai"), t))
           /\ turns' = [turns EXCEPT ![t].pc = "done", ![t].displayUser = shown]
    /\ lastOp' = [Op("lookupDone", t, out.status) EXCEPT !.arg = out.name]
    /\ UNCHANGED <<variant, input, currentUserId, requests, fbPending>>

\* the login turn after its lookup: displayUser is the name when the lookup
\* succeeded with one, then the confirmation message, and the turn returns
LookupDone(t, out) ==
    /\ t \in 1..Len(turns)
    /\ turns[t].pc = "lookup"
    /\ LET shown == IF out.status = "ok" /\ out.name # Null
                    THEN out.name ELSE turns[t].displayUser
       IN  /\ history' = Append(history,
                   Owned(createMessage(LoginText(shown), "ai"), t))
           /\ turns' = [turns EXCEPT ![t].pc = "done", ![t].displayUser = shown]
    /\ lastOp' = [Op("lookupDone", t, out.status) EXCEPT !.arg = out.name]
    /\ UNCHANGED <<variant, input, currentUserId, requests, fbPending>>

\* the catch block logging only
ShowErrorLogOnly(msg, v) == msg

\* the catch block: the bubble's innerText becomes the fixed error text
ShowError(msg, v) == SetBubble(msg, "text", ErrorText(v))

\* the catch block appending a new error message instead of rewriting the
\* placeholder
ChatFailAppend(t, out) ==
    /\ t \in 1..Len(turns)
    /\ turns[t].pc = "chat"
    /\ history' = Append(history,
           Owned(createMessage(ErrorText(variant), "ai"), t))
    /\ turns' = [turns EXCEPT ![t].pc = "done"]
    /\ lastOp' = Op("chatFail", t, out)
    /\ UNCHANGED <<variant, input, currentUserId, requests, fbPending>>

\* the catch block issuing the chat request once more
ChatFailRetry(t, out) ==
    /\ t \in 1..Len(turns)
    /\ turns[t].pc = "chat"
    /\ requests' = Append(requests,
           CHOOSE r \in {requests[i] : i \in 1..Len(requests)} :
               r.kind = "chat" /\ r.turn = t)
    /\ lastOp' = Op("chatFail", t, out)
    /\ UNCHANGED <<variant, input, currentUserId, history, turns, fbPending>>

\* the error text written to the last message of the history instead of
\* the message the call created
ChatFailLastMessage(t, out) ==
    /\ t \in 1..Len(turns)
    /\ turns[t].pc = "chat"
    /\ history' = [history EXCEPT ![Len(history)] = ShowError(@, variant)]
    /\ turns' = [turns EXCEPT ![t].pc = "done"]
    /\ lastOp' = Op("chatFail", t, out)
    /\ UNCHANGED <<variant, input, currentUserId, requests, fbPending>>

\* the chat call failed: catch, then the final scroll
ChatFail(t, out) ==
    /\ t \in 1..Len(turns)
    /\ turns[t].pc = "chat"
    /\ history' = [history EXCEPT ![turns[t].aiMsg] = ShowError(@, variant)]
    /\ turns' = [turns EXCEPT ![t].pc = "done"]
    /\ lastOp' = Op("chatFail", t, out)
    /\ UNCHANGED <<variant, input, currentUserId, requests, fbPending>>

\* productsContainer.appendChild(createProductCard(product))
AppendCard(msg, product) ==
    [msg EXCEPT !.children[ChildIndex(msg, "products")].cards =
                    Append(@, createProductCard(product))]

\* the container appended to the message, below the bubble
StartRevealBelow(msg, products) ==
    AppendCard([msg EXCEPT !.children = Append(@, ProductsContainer)],
               Head(products))

\* aiMsg.insertBefore(productsContainer, bubble), then the first card
StartReveal(msg, products) ==
    AppendCard([msg EXCEPT !.children =
                    insertBefore(@, ProductsContainer, BubbleIndex(msg))],
               Head(products))

\* the feedback container attached, the answer never written to the bubble
RenderAnswerNoText(msg, data, v) ==
    IF v = "extended" /\ data.message_id # Null
    THEN [msg EXCEPT !.children =
              Append(@, FeedbackContainer(data.message_id))]
    ELSE msg

\* after the cards: the rendered markdown replaces the bubble's content and,
\* in the extended variant, a response with a message_id gets the feedback
\* container appended to the message
RenderAnswer(msg, data, v) ==
    LET answered == SetBubble(msg, "html", markedParse(data.response))
    IN  IF v = "extended" /\ data.message_id # Null
        THEN [answered EXCEPT !.children =
                  Append(@, FeedbackContainer(data.message_id))]
        ELSE answered

\* the chat call succeeded and its body parsed: without products the answer
\* is rendered at once, with products the first card is shown and the turn
\* waits for the 200 ms timer
ChatOk(t, data) ==
    /\ t \in 1..Len(turns)
    /\ turns[t].pc = "chat"
    /\ IF Len(data.products) > 0
       THEN /\ history' = [history EXCEPT ![turns[t].aiMsg] =
                               StartReveal(@, data.products)]
            /\ turns' = [turns EXCEPT ![t].pc = "reveal", ![t].data = data,
                                      ![t].left = Tail(data.products)]
       ELSE /\ history' = [history EXCEPT ![turns[t].aiMsg] =
                               RenderAnswer(@, data, variant)]
            /\ turns' = [turns EXCEPT ![t].pc = "done", ![t].data = data]
    /\ lastOp' = Op("chatOk", t, "ok")
    /\ UNCHANGED <<variant, input, currentUserId, requests, fbPending>>

\* the reveal loop without the code after it: once the last card is shown
\* nothing more happens
TimerFireNoRender(t) ==
    /\ t \in 1..Len(turns)
    /\ turns[t].pc = "reveal"
    /\ turns[t].left # << >>
    /\ history' = [history EXCEPT ![turns[t].aiMsg] =
                       AppendCard(@, Head(turns[t].left))]
    /\ turns' = [turns EXCEPT ![t].left = Tail(@)]
    /\ lastOp' = Op("timer", t, "")
    /\ UNCHANGED <<variant, input, currentUserId, requests, fbPending>>

\* the pacing timer of the reveal loop fires: the next card, or after the
\* last one the answer
TimerFire(t) ==
    /\ t \in 1..Len(turns)
    /\ turns[t].pc = "reveal"
    /\ IF turns[t].left # << >>
       THEN /\ history' = [history EXCEPT ![turns[t].aiMsg] =
                               AppendCard(@, Head(turns[t].left))]
            /\ turns' = [turns EXCEPT ![t].left = Tail(@)]
       ELSE /\ history' = [history EXCEPT ![turns[t].aiMsg] =
                               RenderAnswer(@, turns[t].data, variant)]
            /\ turns' = [turns EXCEPT ![t].pc = "done"]
    /\ lastOp' = Op("timer", t, "")
    /\ UNCHANGED <<variant, input, currentUserId, requests, fbPending>>

Clicks == Cardinality({i \in 1..Len(requests) : requests[i].kind = "feedback"})

\* upBtn.onclick / downBtn.onclick: submitFeedback up to its await
ClickFeedback(m, type) ==
    /\ m \in 1..Len(history)
    /\ HasChild(history[m], "feedback")
    /\ Clicks < MaxClicks
    /\ requests' = Append(requests,
           [kind |-> "feedback", turn |-> history[m].turn,
            message_id |-> history[m].children[ChildIndex(history[m], "feedback")].mid,
            feedback |-> type])
    /\ fbPending' = fbPending \cup {[n |-> Clicks + 1, msg |-> m, type |-> type]}
    /\ lastOp' = Op("click", m, type)
    /\ UNCHANGED <<variant, input, currentUserId, history, turns>>

\* which control of the message's feedback container carries class active
ActiveOf(msg) ==
    LET fb == msg.children[ChildIndex(msg, "feedback")]
    IN  IF fb.up /\ fb.down THEN "both"
        ELSE IF fb.up THEN "up"
        ELSE IF fb.down THEN "down"
        ELSE "none"

\* the clicked control marked, the other control left as it was
MarkFeedbackKeepOther(msg, type) ==
    LET i == ChildIndex(msg, "feedback")
    IN  [msg EXCEPT !.children[i].up = (@ \/ type = "up"),
                    !.children[i].down = (@ \/ type = "down"),
                    !.children[i].has = TRUE]

\* the clicked control toggled, the other control left as it was
MarkFeedbackToggle(msg, type) ==
    LET i == ChildIndex(msg, "feedback")
    IN  [msg EXCEPT !.children[i].up = (IF type = "up" THEN ~@ ELSE @),
                    !.children[i].down = (IF type = "down" THEN ~@ ELSE @),
                    !.children[i].has = TRUE]

\* the body of `if (response.ok)` in submitFeedback
MarkFeedback(msg, type) ==
    LET i == ChildIndex(msg, "feedback")
    IN  [msg EXCEPT !.children[i].up = (type = "up"),
                    !.children[i].down = (type = "down"),
                    !.children[i].has = TRUE]

\* submitFeedback marking the controls on any response, its status unread
FeedbackDoneAnyStatus(f, out) ==
    /\ f \in fbPending
    /\ fbPending' = fbPending \ {f}
    /\ history' = IF out \in {"ok", "notok"}
                  THEN [history EXCEPT ![f.msg] = MarkFeedback(@, f.type)]
                  ELSE history
    /\ lastOp' = [Op("feedbackDone", f.msg, out)
                     EXCEPT !.arg = <<f.type, ActiveOf(history[f.msg])>>]
    /\ UNCHANGED <<variant, input, currentUserId, turns, requests>>

\* submitFeedback after its await; the step records the vote and which
\* control was active before it
FeedbackDone(f, out) ==
    /\ f \in fbPending
    /\ fbPending' = fbPending \ {f}
    /\ history' = IF out = "ok"
                  THEN [history EXCEPT ![f.msg] = MarkFeedback(@, f.type)]
                  ELSE history
    /\ lastOp' = [Op("feedbackDone", f.msg, out)
                     EXCEPT !.arg = <<f.type, ActiveOf(history[f.msg])>>]
    /\ UNCHANGED <<variant, input, currentUserId, turns, requests>>

Next ==
    \/ \E s \in Samples : SendMessage(s)
    \/ \E t \in 1..MaxTurns : \E out \in LookupOutcomes : LookupDone(t, out)
    \/ \E t \in 1..MaxTurns : \E out \in Failures : ChatFail(t, out)
    \/ \E t \in 1..MaxTurns : \E data \in ChatData : ChatOk(t, data)
    \/ \E t \in 1..MaxTurns : TimerFire(t)
    \/ \E m \in 1..(2 * MaxTurns) : \E type \in {"up", "down"} : ClickFeedback(m, type)
    \/ \E f \in fbPending : \E out \in {"ok", "notok", "reject"} : FeedbackDone(f, out)

Spec == Init /\ [][Next]_vars

\* the network call turn t awaits (the user lookup or the chat call) comes
\* back, with a success or a failure
Completes(t) ==
    \/ \E out \in LookupOutcomes : LookupDone(t, out)
    \/ \E out \in Failures : ChatFail(t, out)
    \/ \E data \in ChatData : ChatOk(t, data)

\* every issued network call of a turn eventually completes and every
\* pacing timer eventually fires; nothing is assumed of the user or of the
\* feedback calls
Fairness ==
    \A t \in 1..MaxTurns : WF_vars(Completes(t)) /\ WF_vars(TimerFire(t))

SpecFair == Spec /\ Fairness

\* ------------------------------------------------------------------ claims
IsBlank(s) == \A i \in 1..Len(s) : s[i] \in WhiteSpace

TurnIds == 1..Len(turns)
MsgsOf(t, role) ==
    {i \in 1..Len(history) : history[i].turn = t /\ history[i].role = role}
Count(role) == Cardinality({i \in 1..Len(history) : history[i].role = role})
Bubbles(msg) == {i \in 1..Len(msg.children) : msg.children[i].tag = "bubble"}
AllDone == \A t \in TurnIds : turns[t].pc = "done"
ChatRequestsOf(t) ==
    {i \in 1..Len(requests) : requests[i].kind = "chat" /\ requests[i].turn = t}
UserRequestsOf(t) ==
    {i \in 1..Len(requests) : requests[i].kind = "user" /\ requests[i].turn = t}

\* C1: a sendMessage call with an empty or whitespace-only input field
\* appends nothing to the history, issues no request, starts no turn and
\* leaves the identity and the input field as they were.
C1_BlankInputIsNoOp ==
    [][(lastOp'.op = "send" /\ IsBlank(lastOp'.arg))
          => /\ history' = history
             /\ requests' = requests
             /\ turns' = turns
             /\ currentUserId' = currentUserId
             /\ input' = lastOp'.arg]_vars

\* a whitespace-only submission made while a chat call is outstanding
C1_Witness ==
    /\ lastOp.op = "send"
    /\ lastOp.arg # << >>
    /\ IsBlank(lastOp.arg)
    /\ input = lastOp.arg
    /\ \E t \in TurnIds : turns[t].pc = "chat"

\* C2: every non-empty submission owns exactly one user bubble and at most
\* one assistant bubble, exactly one from the start on a non-login turn and
\* exactly one once the turn has finished; so assistant bubbles never
\* outnumber user bubbles and match them when every turn has finished.
C2_OneBubblePerTurn ==
    /\ \A i \in 1..Len(history) :
          /\ history[i].turn \in TurnIds
          /\ Cardinality(Bubbles(history[i])) = 1
    /\ \A t \in TurnIds :
          /\ Cardinality(MsgsOf(t, "user")) = 1
          /\ Cardinality(MsgsOf(t, "ai")) <= 1
          /\ ChatRequestsOf(t) # {} => Cardinality(MsgsOf(t, "ai")) = 1
          /\ turns[t].pc = "done" => Cardinality(MsgsOf(t, "ai")) = 1
    /\ Count("ai") <= Count("user")
    /\ AllDone => Count("ai") = Count("user")

\* two chat turns, both finished, the first one finishing last
C2_Witness ==
    /\ Len(turns) >= 2
    /\ AllDone
    /\ ChatRequestsOf(1) # {} /\ ChatRequestsOf(2) # {}
    /\ lastOp.op \in {"chatFail", "chatOk", "timer"}
    /\ lastOp.t = 1
    /\ Count("user") = 2 /\ Count("ai") = 2

\* the turn started by the step just taken, 0 when the last step started none
Started == IF lastOp.op = "send" /\ ~IsBlank(lastOp.arg) THEN Len(turns) ELSE 0

Confirmations(t) ==
    {i \in MsgsOf(t, "ai") :
        \E name \in Names \cup {turns[t].text} :
            history[i].children = <<Bubble("text", LoginText(name))>>}

\* the texts a turn can carry, and which of them match a whole-input pattern
Texts == {Trim(s) : s \in Samples}
WholeMatches == {text \in Texts : WholeCus(text) \/ WholeEmail(text)}
WholeMatch(text) == text \in WholeMatches

\* C3: in the extended variant, a turn whose trimmed input is as a whole a
\* customer identifier or an email address sets the identity to that input,
\* is a login turn, looks that identity up, never issues a chat request and
\* ends with exactly one assistant message, the confirmation.
C3_WholeMatchIsLogin ==
    variant = "extended" =>
        \A t \in TurnIds :
            WholeMatch(turns[t].text) =>
                /\ turns[t].isLogin
                /\ turns[t].pc \in {"lookup", "done"}
                /\ ChatRequestsOf(t) = {}
                /\ Cardinality(UserRequestsOf(t)) = 1
                /\ \A i \in UserRequestsOf(t) : requests[i].id = turns[t].text
                /\ Started = t => currentUserId = turns[t].text
                /\ turns[t].pc = "lookup" => MsgsOf(t, "ai") = {}
                /\ turns[t].pc = "done" =>
                      /\ Cardinality(MsgsOf(t, "ai")) = 1
                      /\ Confirmations(t) = MsgsOf(t, "ai")

\* a finished whole-match login made while another identity was held
C3_Witness ==
    /\ variant = "extended"
    /\ Len(turns) >= 2
    /\ turns[1].text = <<"a", ".", "b", "@", "x", ".", "c", "o">>
    /\ turns[2].text = <<"c", "u", "s", "_", "A", "1">>
    /\ turns[2].pc = "done"
    /\ currentUserId = <<"c", "u", "s", "_", "A", "1">>

\* the leftmost and then longest stretch of the text that P holds of
Stretches(text, P(_)) ==
    {ij \in (1..Len(text)) \X (1..Len(text)) :
        ij[1] <= ij[2] /\ P(SubSeq(text, ij[1], ij[2]))}
LeftmostLongest(text, P(_)) ==
    LET S == Stretches(text, P)
        i == MinOf({ij[1] : ij \in S})
        j == MaxOf({ij[2] : ij \in {x \in S : x[1] = i}})
    IN  SubSeq(text, i, j)

ExtractedOf ==
    [text \in Texts |->
        IF Stretches(text, WholeCus) # {} THEN LeftmostLongest(text, WholeCus)
        ELSE IF Stretches(text, WholeEmail) # {} THEN LeftmostLongest(text, WholeEmail)
        ELSE Null]
Extracted(text) == ExtractedOf[text]

\* C4: in the extended variant, a turn whose trimmed input is not a whole
\* match but contains a customer identifier, or else an email address, sets
\* the identity to the leftmost longest such stretch (a customer identifier
\* before an email address), is not a login turn and issues the chat request
\* with that identity, whatever identity was held before.
C4_SubstringExtraction ==
    variant = "extended" =>
        \A t \in TurnIds :
            (~WholeMatch(turns[t].text) /\ Extracted(turns[t].text) # Null) =>
                /\ ~turns[t].isLogin
                /\ UserRequestsOf(t) = {}
                /\ Cardinality(ChatRequestsOf(t)) = 1
                /\ \A i \in ChatRequestsOf(t) :
                      /\ requests[i].user_id = Extracted(turns[t].text)
                      /\ requests[i].message = turns[t].text
                /\ Started = t => currentUserId = Extracted(turns[t].text)

\* with an identity already held, an input holding both kinds sets the
\* customer identifier and sends the chat request
C4_Witness ==
    /\ variant = "extended"
    /\ Started = 2
    /\ turns[1].isLogin
    /\ turns[2].text = <<"h", "i", " ", "c", "u", "s", "_", "B", "2", " ", "c", "@", "y", ".", "c", "o">>
    /\ currentUserId = <<"c", "u", "s", "_", "B", "2">>
    /\ requests[Len(requests)].kind = "chat"
    /\ requests[Len(requests)].user_id = <<"c", "u", "s", "_", "B", "2">>

\* an email address taken out of the middle of a sentence
C4_WitnessEmail ==
    /\ variant = "extended"
    /\ Started = 1
    /\ turns[1].text = <<"a", "t", " ", "a", ".", "b", "@", "x", ".", "c", "o", " ", "o", "k", "?">>
    /\ currentUserId = <<"a", ".", "b", "@", "x", ".", "c", "o">>
    /\ turns[1].pc = "chat"

\* the bubbles of the assistant messages of turn t
AiBubbles(h, t) ==
    UNION {{h[i].children[b] : b \in Bubbles(h[i])} :
              i \in {k \in 1..Len(h) : h[k].turn = t /\ h[k].role = "ai"}}

ConnectivityError ==
    IF variant = "extended"
    THEN Bubble("text", <<"I'm having trouble connecting to the server. Please make sure the backend is running at localhost:8005.">>)
    ELSE Bubble("text", <<"I'm having trouble connecting to the server. Please make sure the backend is running at localhost:8000.">>)

\* C5: when the chat call of a turn fails (the fetch rejects, the status is
\* not a success, or the body does not parse), the turn's assistant bubble
\* becomes the variant's fixed connectivity-error text, and the bubble of a
\* finished turn never changes again: a failed turn does not end on
\* "Thinking...".
C5_FailureShowsError ==
    [][/\ lastOp'.op = "chatFail" =>
            /\ turns'[lastOp'.t].pc = "done"
            /\ AiBubbles(history', lastOp'.t) = {ConnectivityError}
       /\ \A t \in TurnIds :
            turns[t].pc = "done" =>
                /\ turns'[t].pc = "done"
                /\ AiBubbles(history', t) = AiBubbles(history, t)]_vars

\* a turn has failed on a non-success status and later steps have been taken
C5_Witness ==
    /\ Len(turns) >= 2
    /\ turns[1].pc = "done"
    /\ ChatRequestsOf(1) # {}
    /\ AiBubbles(history, 1) = {ConnectivityError}
    /\ lastOp.op = "chatFail" /\ lastOp.out = "notok" /\ lastOp.t = 2
    /\ AiBubbles(history, 2) = {ConnectivityError}

\* a turn whose chat call succeeded and whose answer has been rendered
Answered(t) == turns[t].pc = "done" /\ turns[t].data # NoData

\* the children of a finished assistant message for a response: the product
\* container with one card per product in response order (only when there
\* are products), the bubble holding the rendered response, and last, when
\* wanted, the feedback container of the response's message identifier
HasShape(msg, data, withFeedback) ==
    LET cards == [i \in 1..Len(data.products) |->
                     createProductCard(data.products[i])]
        top   == IF Len(data.products) > 0
                 THEN <<[tag |-> "products", cards |-> cards]>> ELSE << >>
        upper == top \o <<Bubble("html", markedParse(data.response))>>
        n     == Len(msg.children)
    IN  IF withFeedback
        THEN /\ n = Len(upper) + 1
             /\ SubSeq(msg.children, 1, n - 1) = upper
             /\ msg.children[n].tag = "feedback"
             /\ msg.children[n].mid = data.message_id
        ELSE msg.children = upper

\* C6 as claimed: every answered turn's assistant message is cards, bubble,
\* feedback controls in that order, the feedback controls being there
\* exactly when the response carried a message identifier.
C6_FeedbackIffMessageId ==
    \A t \in TurnIds : Answered(t) =>
        \A i \in MsgsOf(t, "ai") :
            HasShape(history[i], turns[t].data, turns[t].data.message_id # Null)

\* C6: every answered turn's assistant message is the product cards (one per
\* product, in response order), then the bubble with the rendered response,
\* then the feedback controls; the feedback controls are there exactly when
\* the page runs the extended variant and the response carried a message
\* identifier, and the basic variant never attaches them.
C6_RenderedOrder ==
    \A t \in TurnIds : Answered(t) =>
        \A i \in MsgsOf(t, "ai") :
            HasShape(history[i], turns[t].data,
                     variant = "extended" /\ turns[t].data.message_id # Null)

\* an answer with two products and a message identifier, fully rendered
C6_Witness ==
    /\ variant = "extended"
    /\ \E t \in TurnIds :
          /\ Answered(t)
          /\ Len(turns[t].data.products) = 2
          /\ turns[t].data.message_id # Null
          /\ Len(history[turns[t].aiMsg].children) = 3
          /\ history[turns[t].aiMsg].children[1].tag = "products"
          /\ Len(history[turns[t].aiMsg].children[1].cards) = 2
          /\ history[turns[t].aiMsg].children[2].tag = "bubble"
          /\ history[turns[t].aiMsg].children[3].tag = "feedback"

ShowsThinking(i) ==
    /\ history[i].role = "ai"
    /\ \E b \in Bubbles(history[i]) :
          history[i].children[b] = Bubble("text", ThinkingText)

\* an assistant bubble showing "Thinking..." whose chat call is outstanding
PendingPlaceholders ==
    {i \in 1..Len(history) :
        ShowsThinking(i) /\ turns[history[i].turn].pc = "chat"}

\* C7 as claimed: at most one pending placeholder in the history.
C7_AtMostOnePending == Cardinality(PendingPlaceholders) <= 1

\* C7: a turn has exactly one pending placeholder while its chat call is
\* outstanding and none before or after, so the history holds as many
\* pending placeholders as there are outstanding chat calls (more than one
\* when turns overlap); a finished turn never shows "Thinking...".
C7_OnePendingPerOutstandingCall ==
    /\ \A t \in TurnIds :
          /\ Cardinality({i \in MsgsOf(t, "ai") : ShowsThinking(i)}) <= 1
          /\ turns[t].pc = "chat" =>
                Cardinality({i \in PendingPlaceholders : history[i].turn = t}) = 1
          /\ turns[t].pc \in {"lookup", "done"} =>
                {i \in MsgsOf(t, "ai") : ShowsThinking(i)} = {}
    /\ Cardinality(PendingPlaceholders)
          = Cardinality({t \in TurnIds : turns[t].pc = "chat"})

\* two turns with their chat calls outstanding, two placeholders
C7_Witness ==
    /\ Cardinality(PendingPlaceholders) = 2
    /\ Cardinality({t \in TurnIds : turns[t].pc = "chat"}) = 2

WithFeedback == {m \in 1..Len(history) : HasChild(history[m], "feedback")}

\* the feedback container of message m: its last child
Fb(h, m) == h[m].children[Len(h[m].children)]

\* C8: when a feedback submission succeeds, the clicked control is active,
\* the other control is inactive and the container is marked has-feedback,
\* whichever control was active before (so a successful click on the other
\* control reverses the two); the has-feedback mark is never removed.
C8_FeedbackSuccess ==
    [][/\ (lastOp'.op = "feedbackDone" /\ lastOp'.out = "ok") =>
            /\ Fb(history', lastOp'.t).has
            /\ Fb(history', lastOp'.t).up = (lastOp'.arg[1] = "up")
            /\ Fb(history', lastOp'.t).down = (lastOp'.arg[1] = "down")
       /\ \A m \in WithFeedback :
            Fb(history, m).has => Fb(history', m).has]_vars

\* "up" was active and a "down" submission has just succeeded
C8_Witness ==
    /\ lastOp.op = "feedbackDone"
    /\ lastOp.out = "ok"
    /\ lastOp.arg = <<"down", "up">>
    /\ Fb(history, lastOp.t).down
    /\ ~Fb(history, lastOp.t).up
    /\ Fb(history, lastOp.t).has

\* C9: when a feedback submission fails (the fetch rejects or the status is
\* not a success), the whole history, and with it both controls and the
\* has-feedback mark, is as it was before the response; and as long as the
\* click budget of the model lasts, both controls of every feedback
\* container can be clicked, whatever happened to earlier submissions.
C9_FeedbackFailure ==
    /\ [][(lastOp'.op = "feedbackDone" /\ lastOp'.out # "ok")
             => history' = history]_vars
    /\ [](\A m \in WithFeedback : \A type \in {"up", "down"} :
             Clicks < MaxClicks => ENABLED ClickFeedback(m, type))

\* a submission has just failed on a non-success status and the controls
\* can be clicked again
C9_Witness ==
    /\ lastOp.op = "feedbackDone"
    /\ lastOp.out = "notok"
    /\ lastOp.arg = <<"up", "none">>
    /\ ~Fb(history, lastOp.t).up
    /\ ~Fb(history, lastOp.t).has
    /\ ENABLED ClickFeedback(lastOp.t, "up")

\* C10: in the extended variant the identity is set by the first non-empty
\* submission at the latest (by the pattern it matches, else by the
\* fallback), and once it is set no step makes it absent again.
C10_IdentityNeverRevoked ==
    [][/\ currentUserId # Null => currentUserId' # Null
       /\ (variant = "extended" /\ lastOp'.op = "send" /\ ~IsBlank(lastOp'.arg))
             => currentUserId' # Null]_vars

\* with an identity held, a turn matching no pattern has failed
C10_Witness ==
    /\ variant = "extended"
    /\ Len(turns) >= 2
    /\ turns[2].text = <<"h", "e", "l", "l", "o">>
    /\ lastOp.op = "chatFail"
    /\ lastOp.t = 2
    /\ currentUserId # Null

\* a turn suspended in its chat call or in a pacing delay of its reveal
InFlight == {t \in TurnIds : turns[t].pc \in {"chat", "reveal"}}

NonBlankSamples == {s \in Samples : ~IsBlank(s)}

\* the non-blank inputs of at most eight characters: a plain text, a whole
\* customer identifier and a whole email address
ShortSamples == {s \in NonBlankSamples : Len(s) <= 8}

UserMessage(text, t) ==
    [role |-> "user", turn |-> t, children |-> <<Bubble("text", text)>>]
Placeholder(t) ==
    [role |-> "ai", turn |-> t, children |-> <<Bubble("text", ThinkingText)>>]

\* the step is a non-empty submission
Submits == lastOp'.op = "send" /\ ~IsBlank(lastOp'.arg)

\* C11 as claimed: a non-empty submission made while a turn is suspended in
\* its chat call or in a pacing delay appends its user bubble and its
\* placeholder in the same step.
C11_SubmissionAppendsPlaceholder ==
    [][(Submits /\ InFlight # {}) =>
          history' = history \o <<UserMessage(Trim(lastOp'.arg), Len(turns) + 1),
                                  Placeholder(Len(turns) + 1)>>]_vars

\* C11: while a turn is suspended in its chat call or in a pacing delay,
\* a non-empty submission is enabled (as long as the turn budget of the
\* model lasts; enabledness is evaluated for the short inputs, one of each
\* kind of turn) and every non-empty submission made then appends in the
\* same step its user bubble and, unless it is an explicit login turn of
\* the extended variant (a whole-input customer identifier or email
\* address), its placeholder right after it.
C11_RevealDoesNotBlock ==
    /\ [](InFlight # {} /\ Len(turns) < MaxTurns =>
             \A s \in ShortSamples : ENABLED SendMessage(s))
    /\ [][(Submits /\ InFlight # {}) =>
             LET text == Trim(lastOp'.arg)
                 t    == Len(turns) + 1
             IN  /\ Len(turns') = t
                 /\ IF variant = "extended" /\ WholeMatch(text)
                    THEN history' = Append(history, UserMessage(text, t))
                    ELSE history' = history \o
                             <<UserMessage(text, t), Placeholder(t)>>]_vars

\* a submission made during the pacing delay of another turn's reveal
C11_Witness ==
    /\ Started = 2
    /\ turns[1].pc = "reveal"
    /\ turns[1].left # << >>
    /\ turns[2].pc = "chat"
    /\ Len(history) = 4
    /\ history[3] = UserMessage(turns[2].text, 2)
    /\ history[4] = Placeholder(2)

FeedbackRequests == {i \in 1..Len(requests) : requests[i].kind = "feedback"}

\* C12: a login turn issues exactly one user lookup and no chat request, any
\* other turn exactly one chat request and no lookup, whether or not the
\* turn has finished and however its request ended; a click issues exactly
\* one feedback request; and no completion step issues any request.
C12_NoRetry ==
    /\ [](\A t \in TurnIds :
             /\ Cardinality(UserRequestsOf(t)) = (IF turns[t].isLogin THEN 1 ELSE 0)
             /\ Cardinality(ChatRequestsOf(t)) = (IF turns[t].isLogin THEN 0 ELSE 1))
    /\ [](Len(requests) = Len(turns) + Cardinality(FeedbackRequests))
    /\ [][/\ lastOp'.op = "click" =>
               /\ Len(requests') = Len(requests) + 1
               /\ SubSeq(requests', 1, Len(requests)) = requests
               /\ requests'[Len(requests')].kind = "feedback"
               /\ requests'[Len(requests')].feedback = lastOp'.out
          /\ lastOp'.op \in {"lookupDone", "chatFail", "chatOk", "timer", "feedbackDone"}
               => requests' = requests]_vars

\* a login turn and a chat turn, the chat call having just failed
C12_Witness ==
    /\ Len(turns) = 2
    /\ turns[1].isLogin /\ turns[1].pc = "done"
    /\ ~turns[2].isLogin /\ turns[2].pc = "done"
    /\ lastOp.op = "chatFail" /\ lastOp.t = 2
    /\ Len(requests) = 2

\* C13: when the lookup of a login turn completes, exactly one message is
\* appended to the history, the confirmation, and it names the name of the
\* response when the lookup succeeded with one, and otherwise (rejected,
\* non-success status, unparsable body, no name) the identifier the turn
\* logged in with, its trimmed input; nothing else of the history changes.
C13_LoginConfirmation ==
    [][lastOp'.op = "lookupDone" =>
          LET t     == lastOp'.t
              shown == IF lastOp'.out = "ok" /\ lastOp'.arg # Null
                       THEN lastOp'.arg ELSE turns[t].text
          IN  /\ turns[t].isLogin
              /\ history' = Append(history,
                    [role |-> "ai", turn |-> t,
                     children |-> <<Bubble("text", LoginText(shown))>>])]_vars

\* a lookup has failed after a later turn changed the identity
C13_Witness ==
    /\ lastOp.op = "lookupDone"
    /\ lastOp.out = "reject"
    /\ lastOp.t = 1
    /\ Len(turns) = 2
    /\ currentUserId # turns[1].text
    /\ history[Len(history)].children = <<Bubble("text", LoginText(turns[1].text))>>

\* the texts that match no pattern, as a whole or in part
NoPattern(text) == ~WholeMatch(text) /\ Extracted(text) = Null

\* C14: in the extended variant a submission matching no pattern, made
\* with no identity set, adopts the trimmed input as the identity and is a
\* login turn (a user lookup, only the user bubble, no chat request); made
\* with an identity set, it leaves the identity as it is and is a chat turn
\* (user bubble, placeholder, one chat request carrying that identity).
C14_NoPatternFallback ==
    [][(variant = "extended" /\ Submits /\ NoPattern(Trim(lastOp'.arg))) =>
          LET text == Trim(lastOp'.arg)
              t    == Len(turns) + 1
              req  == requests'[Len(requests')]
          IN  /\ Len(turns') = t
              /\ Len(requests') = Len(requests) + 1
              /\ IF currentUserId = Null
                 THEN /\ currentUserId' = text
                      /\ turns'[t].isLogin
                      /\ req.kind = "user" /\ req.id = text
                      /\ history' = Append(history, UserMessage(text, t))
                 ELSE /\ currentUserId' = currentUserId
                      /\ ~turns'[t].isLogin
                      /\ req.kind = "chat" /\ req.user_id = currentUserId
                      /\ req.message = text
                      /\ history' = history \o
                             <<UserMessage(text, t), Placeholder(t)>>]_vars

\* the same plain text submitted twice: a login, then a chat turn
C14_Witness ==
    /\ variant = "extended"
    /\ Started = 2
    /\ turns[1].text = <<"h", "e", "l", "l", "o">>
    /\ turns[2].text = <<"h", "e", "l", "l", "o">>
    /\ turns[1].isLogin
    /\ ~turns[2].isLogin
    /\ turns[2].pc = "chat"
    /\ currentUserId = <<"h", "e", "l", "l", "o">>

\* the terminal rendered state of turn t: the sendMessage call has returned
\* and the turn shows its login confirmation, its rendered answer or the
\* connectivity-error text, and so no "Thinking..."
Terminal(t) ==
    /\ t \in TurnIds
    /\ turns[t].pc = "done"
    /\ IF turns[t].isLogin THEN Confirmations(t) # {}
       ELSE IF turns[t].data # NoData
       THEN AiBubbles(history, t) =
                {Bubble("html", markedParse(turns[t].data.response))}
       ELSE AiBubbles(history, t) = {ConnectivityError}

\* every turn started so far is in its terminal rendered state and no
\* assistant bubble shows "Thinking..."
Quiescent ==
    /\ \A t \in TurnIds : Terminal(t)
    /\ \A i \in 1..Len(history) : ~ShowsThinking(i)

\* C15: when every issued network call eventually completes and every
\* pacing timer eventually fires, every started turn eventually reaches a
\* terminal rendered state and no placeholder shows "Thinking..." forever:
\* after every moment there is a later one at which all the turns started
\* so far are terminal and nothing shows "Thinking...".
C15_EveryTurnTerminates == []<>Quiescent

\* a login turn, then a chat turn whose answer came after a reveal of two
\* products: both in their terminal rendered state
C15_Witness ==
    /\ Len(turns) = 2
    /\ turns[1].isLogin
    /\ Terminal(1)
    /\ Len(turns[2].data.products) = 2
    /\ Terminal(2)
    /\ lastOp.op = "timer"

\* the steps that render a chat result into the history
RenderOps == {"chatOk", "chatFail", "timer"}

\* C16: a non-login turn owns one user bubble and, right after it, one
\* assistant message, the one its call holds; a step rendering a chat result
\* of turn t (first card, next card, answer with feedback controls, error
\* text) changes that message and no other and adds none, the answer shown
\* being the response delivered to turn t; and a lookup result of turn t
\* only appends a message of turn t.
C16_ResultsStayInTheirTurn ==
    /\ [](\A t \in TurnIds : ~turns[t].isLogin =>
             /\ turns[t].aiMsg \in 2..Len(history)
             /\ MsgsOf(t, "ai") = {turns[t].aiMsg}
             /\ MsgsOf(t, "user") = {turns[t].aiMsg - 1})
    /\ [][/\ lastOp'.op \in RenderOps =>
              LET t == lastOp'.t
                  m == turns[t].aiMsg
              IN  /\ history[m].turn = t
                  /\ Len(history') = Len(history)
                  /\ history'[m] # history[m]
                  /\ \A i \in 1..Len(history) : i # m => history'[i] = history[i]
                  /\ (lastOp'.op # "chatFail" /\ turns'[t].pc = "done") =>
                        AiBubbles(history', t) =
                            {Bubble("html", markedParse(turns'[t].data.response))}
                  /\ lastOp'.op = "chatFail" =>
                        AiBubbles(history', t) = {ConnectivityError}
          /\ lastOp'.op = "lookupDone" =>
              /\ Len(history') = Len(history) + 1
              /\ SubSeq(history', 1, Len(history)) = history
              /\ history'[Len(history')].turn = lastOp'.t]_vars

\* two overlapping chat turns whose calls came back in the reverse order:
\* the second failed first, then the first was answered with other text
C16_Witness ==
    /\ Len(turns) = 2
    /\ ~turns[1].isLogin /\ ~turns[2].isLogin
    /\ turns[1].aiMsg = 2 /\ turns[2].aiMsg = 4
    /\ lastOp.op = "chatOk" /\ lastOp.t = 1
    /\ turns[1].pc = "done" /\ turns[2].pc = "done"
    /\ turns[2].data = NoData
    /\ AiBubbles(history, 2) = {ConnectivityError}
    /\ AiBubbles(history, 1) =
           {Bubble("html", markedParse(turns[1].data.response))}

ChatRequests == {i \in 1..Len(requests) : requests[i].kind = "chat"}

\* C17: in the extended variant every chat request carries a user_id that
\* is not absent; the request of a chat turn is issued in the submission
\* step, carrying the identity that step resolved, and a login turn issues
\* no chat request; and no later step alters an issued request, whatever
\* happens to the identity.
C17_ChatRequestIdentity ==
    /\ [](variant = "extended" =>
             \A i \in ChatRequests : requests[i].user_id # Null)
    /\ [][variant = "extended" =>
             /\ \A i \in 1..Len(requests) :
                   Len(requests') >= i /\ requests'[i] = requests[i]
             /\ Submits =>
                   LET t   == Len(turns')
                       req == requests'[Len(requests')]
                   IN  /\ t = Len(turns) + 1
                       /\ Len(requests') = Len(requests) + 1
                       /\ IF turns'[t].isLogin
                          THEN req.kind = "user"
                          ELSE /\ req.kind = "chat"
                               /\ req.turn = t
                               /\ currentUserId' # Null
                               /\ req.user_id = currentUserId'
             /\ ~Submits => Cardinality(ChatRequests') = Cardinality(ChatRequests)]_vars

\* a chat call in flight under one identity while a later login turn has
\* changed the identity
C17_Witness ==
    /\ variant = "extended"
    /\ Len(turns) = 2
    /\ turns[1].pc = "chat"
    /\ turns[2].isLogin
    /\ requests[1].kind = "chat"
    /\ requests[1].user_id # Null
    /\ currentUserId # requests[1].user_id

\* C18: the two feedback controls of a message are never both active, and
\* a container marked has-feedback has exactly one active control; a
\* successful submission response makes its own control the active one of
\* its message, and no other step (a click, a failed response, a response
\* for another message, any step of a turn) changes which control of a
\* message is active, so the active control is that of the most recently
\* completed successful submission, in whatever order the responses come.
C18_OneActiveControl ==
    /\ [](\A m \in WithFeedback :
             /\ ~(Fb(history, m).up /\ Fb(history, m).down)
             /\ Fb(history, m).has => (Fb(history, m).up # Fb(history, m).down))
    /\ [][\A m \in WithFeedback :
             IF lastOp'.op = "feedbackDone" /\ lastOp'.out = "ok" /\ lastOp'.t = m
             THEN ActiveOf(history'[m]) = lastOp'.arg[1]
             ELSE ActiveOf(history'[m]) = ActiveOf(history[m])]_vars

\* up then down clicked on one message, the responses arriving in the other
\* order and both successful: down was active, now up is
C18_Witness ==
    /\ Cardinality(FeedbackRequests) = 2
    /\ \E i, j \in FeedbackRequests :
          /\ i < j
          /\ requests[i].feedback = "up"
          /\ requests[j].feedback = "down"
          /\ requests[i].message_id = requests[j].message_id
          /\ requests[i].turn = requests[j].turn
    /\ fbPending = {}
    /\ lastOp.op = "feedbackDone"
    /\ lastOp.out = "ok"
    /\ lastOp.arg = <<"up", "down">>
    /\ ActiveOf(history[lastOp.t]) = "up"
====
